---------------------------- MODULE Spec2Model ----------------------------
(***************************************************************************)
(* Model of the lesson chunking service (src/app.py).                      *)
(*                                                                         *)
(* One inbound route (POST /chunk, chunk_lesson), one background task per  *)
(* accepted request (process_lesson) and one outbound call with retry      *)
(* (send_to_laravel_with_retry).  The background task is a coroutine: it   *)
(* runs atomically up to each await (the network call, the backoff sleep)  *)
(* and may be interleaved with other tasks there.                          *)
(*                                                                         *)
(* Text is modelled as a sequence of segments, each a homogeneous run of   *)
(* characters: whitespace ("ws") or visible text ("txt"), with its length  *)
(* in characters.                                                          *)
(***************************************************************************)
EXTENDS Naturals, Integers, Sequences, FiniteSets

(***************************************************************************)
(* Bounds of the model.                                                    *)
(***************************************************************************)
\* Longest lesson content, in segments.
MaxSegs == 3
\* Number of requests (hence background tasks) in the concurrent specification.
NumReqs == 2
\* Largest `retries` argument send_to_laravel_with_retry is called with.
MaxRetriesArg == 3

(***************************************************************************)
(* Program constants.                                                      *)
(***************************************************************************)
\* send_to_laravel_with_retry(payload, retries: int = 3, delay: float = 2.0)
Retries == 3
Delay == 2
\* RecursiveChunker(..., min_characters_per_chunk=100)
MinCharsPerChunk == 100
\* API_KEY = os.getenv("EDTRY_INTERNAL_API_KEY")
API_KEY == "secret"
\* LARAVEL_API_URL = os.getenv("LARAVEL_API_URL")
LARAVEL_API_URL == "https://laravel.example/api/chunks"

Reqs == 1..NumReqs

(***************************************************************************)
(* Text.                                                                   *)
(***************************************************************************)
Seg(k, n) == [k |-> k, n |-> n]

\* The segments lesson contents are built from.
Segs == {Seg("ws", 1), Seg("ws", 101), Seg("txt", 60), Seg("txt", 101)}

RECURSIVE SeqsUpTo(_, _)
\* All sequences over S of length at most n.
SeqsUpTo(S, n) ==
    IF n = 0 THEN {<<>>}
    ELSE LET shorter == SeqsUpTo(S, n - 1)
         IN  shorter \cup {Append(t, s) : t \in shorter, s \in S}

RECURSIVE CharLen(_)
\* len(text): the number of characters of a text.
CharLen(t) == IF t = <<>> THEN 0 ELSE Head(t).n + CharLen(Tail(t))

RECURSIVE LStrip(_)
LStrip(t) ==
    IF t = <<>> THEN <<>>
    ELSE IF Head(t).k = "ws" THEN LStrip(Tail(t)) ELSE t

RECURSIVE RStrip(_)
RStrip(t) ==
    IF t = <<>> THEN <<>>
    ELSE IF t[Len(t)].k = "ws" THEN RStrip(SubSeq(t, 1, Len(t) - 1)) ELSE t

\* str.strip(): leading and trailing whitespace removed, inner whitespace kept.
Strip(t) == RStrip(LStrip(t))

(***************************************************************************)
(* The chunker (chonkie's RecursiveChunker, configured at module level).   *)
(* It is a third-party library: the model keeps what the service relies on *)
(* and leaves the choice of the split points open.  An empty text yields   *)
(* no chunk; a non-empty text is cut into consecutive non-empty slices     *)
(* that cover it, each carrying its character offsets; token counting may  *)
(* fail, in which case the call raises.                                    *)
(***************************************************************************)
RECURSIVE SortedSeq(_)
\* The elements of a finite set of numbers in increasing order.
SortedSeq(S) ==
    IF S = {} THEN <<>>
    ELSE LET m == CHOOSE x \in S : \A y \in S : x <= y
         IN  <<m>> \o SortedSeq(S \ {m})

\* The sets of split points (segment boundaries) the chunker may choose.
ChunkerCuts(text) ==
    IF text = <<>> THEN {{}} ELSE SUBSET (1..(Len(text) - 1))

\* chunker(text) when it cuts the text at `cuts`: the ordered chunk objects.
chunker(text, cuts) ==
    IF text = <<>> THEN <<>>
    ELSE LET ends == SortedSeq(cuts \cup {Len(text)})
         IN  [j \in 1..Len(ends) |->
                LET lo == IF j = 1 THEN 0 ELSE ends[j - 1]
                IN  [text        |-> SubSeq(text, lo + 1, ends[j]),
                     start_index |-> CharLen(SubSeq(text, 1, lo)),
                     end_index   |-> CharLen(SubSeq(text, 1, ends[j]))]]

\* What a call chunker(text) can do: raise, or return chunk objects.
ChunkerOutcomes(text) ==
    {[raises |-> TRUE, objs |-> <<>>]}
    \cup {[raises |-> FALSE, objs |-> chunker(text, c)] : c \in ChunkerCuts(text)}

(***************************************************************************)
(* Requests.                                                               *)
(***************************************************************************)
\* The X-Internal-API-Key header of a request: absent, or present with a value.
NoHeader == [present |-> FALSE]
Header(v) == [present |-> TRUE, value |-> v]
Headers == {NoHeader, Header(API_KEY), Header("wrong")}

\* The documented lesson types.
ValidTypes == {"created", "updated", "deleted"}
\* The type tags requests carry: documented and undocumented ones.
Types == ValidTypes \cup {"archived", ""}

Titles == {<<Seg("txt", 5)>>, <<Seg("ws", 1), Seg("txt", 5), Seg("ws", 1)>>}
Contents == SeqsUpTo(Segs, MaxSegs)

\* class LessonInput(BaseModel)
LessonInput(cid, lid, title, content, type) ==
    [course_id |-> cid, lesson_id |-> lid, lesson_title |-> title,
     lesson_content |-> content, type |-> type]

\* A POST /chunk request: its API-key header and its validated body.
Request(h, d) == [header |-> h, data |-> d]

\* The requests a single client may send.
Requests ==
    {Request(h, LessonInput(1, 42, t, c, ty)) :
        h \in Headers, t \in Titles, c \in Contents, ty \in Types}

\* The requests concurrent clients send: accepted ones, told apart by their ids.
ConcContents == {<<Seg("txt", 101)>>, <<Seg("ws", 1), Seg("txt", 60), Seg("txt", 101)>>}
ConcRequests(r) ==
    {Request(Header(API_KEY), LessonInput(r, 40 + r, <<Seg("txt", 5)>>, c, "created")) :
        c \in ConcContents}

\* The requests termination is checked for: any header, any type, empty,
\* blank, one-chunk and several-chunk contents.
FairContents ==
    {<<>>, <<Seg("ws", 101)>>, <<Seg("txt", 101)>>,
     <<Seg("ws", 1), Seg("txt", 60), Seg("txt", 101)>>}
FairRequests ==
    {Request(h, LessonInput(1, 42, <<Seg("txt", 5)>>, c, ty)) :
        h \in Headers, c \in FairContents, ty \in Types}

\* Two accepted requests that differ only in their type.
PairRequests ==
    {<<Request(Header(API_KEY), LessonInput(1, 42, <<Seg("txt", 5)>>, c, ty1)),
       Request(Header(API_KEY), LessonInput(1, 42, <<Seg("txt", 5)>>, c, ty2))>> :
        c \in FairContents, ty1 \in ValidTypes, ty2 \in ValidTypes}

\* The accepted requests send_to_laravel_with_retry's `retries` argument is
\* varied for.
CallRequests ==
    {Request(Header(API_KEY), LessonInput(1, 42, <<Seg("txt", 5)>>, c, "created")) :
        c \in FairContents}

\* The values of the `retries` argument: negative, zero, and 1..MaxRetriesArg.
RetriesArgs == {0 - 1, 0} \cup (1..MaxRetriesArg)

NoReq == [absent |-> TRUE]

(***************************************************************************)
(* Responses of POST /chunk.                                               *)
(***************************************************************************)
NoResponse == [status |-> 0]
Unauthorized == [status |-> 401, detail |-> "Unauthorized"]
\* FastAPI's answer when a required parameter (Header(...)) is absent.
Unprocessable == [status |-> 422, detail |-> "Field required"]
InvalidType == [status |-> 400, detail |-> "Invalid lesson type"]
Accepted ==
    [status |-> 200,
     message |-> "Chunking request accepted and processing in background."]

\* verify_api_key behind Depends: the status it fails with, 0 when it passes.
\* The header is declared Header(...), i.e. required: when it is absent the
\* framework answers 422 without calling the function.
verify_api_key(h) ==
    IF ~h.present THEN 422
    ELSE IF h.value # API_KEY THEN 401
    ELSE 0

\* Faulty variant of TypeRejected: a wrong member in the set of accepted types.
TypeRejectedTypo(type) == type \notin {"created", "updated", "archived"}

\* if data.type not in {"created", "updated", "deleted"}
TypeRejected(type) == type \notin ValidTypes

\* Faulty variant of Response: the type check runs before the API-key check.
ResponseTypeFirst(h, data) ==
    CASE TypeRejected(data.type) -> InvalidType
      [] verify_api_key(h) = 422 -> Unprocessable
      [] verify_api_key(h) = 401 -> Unauthorized
      [] OTHER -> Accepted

\* Faulty variant of Response: the handler chunks before it answers and reports an
\* empty result to the caller.
ResponseReportsChunking(h, data) ==
    CASE verify_api_key(h) = 422 -> Unprocessable
      [] verify_api_key(h) = 401 -> Unauthorized
      [] TypeRejected(data.type) -> InvalidType
      [] Strip(data.lesson_content) = <<>> ->
             [status |-> 500, detail |-> "No chunks produced."]
      [] OTHER -> Accepted

\* The response of chunk_lesson: the dependency first, then the type check.
Response(h, data) ==
    CASE verify_api_key(h) = 422 -> Unprocessable
      [] verify_api_key(h) = 401 -> Unauthorized
      [] TypeRejected(data.type) -> InvalidType
      [] OTHER -> Accepted

\* Faulty variant of SchedulesTask: the task is added before the type is checked.
SchedulesTaskBeforeTypeCheck(h, data) == verify_api_key(h) = 0

\* Whether chunk_lesson reaches background_tasks.add_task(process_lesson, data).
SchedulesTask(h, data) == verify_api_key(h) = 0 /\ ~TypeRejected(data.type)

(***************************************************************************)
(* process_lesson and send_to_laravel_with_retry: the pure parts.          *)
(***************************************************************************)
\* Faulty variant of BuildChunks: the first chunk object is skipped.
BuildChunksSkipFirst(objs) ==
    [i \in 1..(Len(objs) - 1) |-> [text |-> objs[i + 1].text, chunk_index |-> i - 1]]

\* Faulty variant of BuildChunks: the indices are counted from 1.
BuildChunksOneBased(objs) ==
    [i \in 1..Len(objs) |-> [text |-> objs[i].text, chunk_index |-> i]]

\* [{"text": c.text, "chunk_index": idx} for idx, c in enumerate(chunked_objs)]
BuildChunks(objs) ==
    [i \in 1..Len(objs) |-> [text |-> objs[i].text, chunk_index |-> i - 1]]

\* Faulty variant of BuildPayload: the title is forwarded untrimmed.
BuildPayloadRawTitle(data, full_text, chunks) ==
    [title     |-> data.lesson_title,
     text      |-> full_text,
     course_id |-> data.course_id,
     lesson_id |-> data.lesson_id,
     type      |-> data.type,
     chunks    |-> chunks]

\* Faulty variant of BuildPayload: a deleted lesson is forwarded without its chunks.
BuildPayloadDeletedBare(data, full_text, chunks) ==
    [title     |-> Strip(data.lesson_title),
     text      |-> full_text,
     course_id |-> data.course_id,
     lesson_id |-> data.lesson_id,
     type      |-> data.type,
     chunks    |-> IF data.type = "deleted" THEN <<>> ELSE chunks]

\* payload = {"title": ..., "text": ..., "course_id": ..., ...}
BuildPayload(data, full_text, chunks) ==
    [title     |-> Strip(data.lesson_title),
     text      |-> full_text,
     course_id |-> data.course_id,
     lesson_id |-> data.lesson_id,
     type      |-> data.type,
     chunks    |-> chunks]

\* client.post(LARAVEL_API_URL, json=payload, headers=headers)
OutboundRequest(p) ==
    [url |-> LARAVEL_API_URL, headers |-> [X_Internal_API_Key |-> API_KEY], json |-> p]

\* Faulty variant of Backoff: the delay is not doubled.
BackoffConstant(attempt) == Delay

\* delay * (2 ** attempt)
Backoff(attempt) == Delay * (2 ^ attempt)

\* Faulty variant of RetriesLeft: the comparison off by one (attempt <= retries - 1).
RetriesLeftOffByOne(attempt, n) == attempt <= n - 1

\* Faulty variant of RetriesLeft: the last attempt is not recognised.
RetriesLeftAlways(attempt, n) == TRUE

\* if attempt < retries - 1
RetriesLeft(attempt, n) == attempt < n - 1

\* Faulty variant of LoopRuns: the loop body runs once before the bound is tested.
LoopRunsAtLeastOnce(attempt, n) == attempt = 0 \/ attempt < n

\* for attempt in range(retries): whether the body runs for this value of attempt.
LoopRuns(attempt, n) == attempt < n

\* Faulty variant of IsHTTPError: every exception is caught and retried.
IsAnyException(outcome) == outcome # "ok"

\* except httpx.HTTPError: whether the attempt's outcome is caught by the loop.
IsHTTPError(outcome) == outcome = "http_error"

\* What awaiting one delivery attempt can do: return a success status with a
\* JSON body; raise httpx.HTTPError (transport failure, timeout, error status);
\* return a success status whose body is not JSON (response.json() raises);
\* raise another exception before a response is obtained.
PostOutcomes == {"ok", "http_error", "bad_json", "other_error"}

\* Log records.
LogRec(level, msg, arg) == [level |-> level, msg |-> msg, arg |-> arg]

(***************************************************************************)
(* State.                                                                  *)
(***************************************************************************)
VARIABLES
    req,          \* req[r]: the request client r sends (NoReq: none)
    resp,         \* resp[r]: the HTTP response to request r (NoResponse: not yet)
    pc,           \* pc[r]: where request r's background task stands
    chunked_objs, \* chunked_objs[r]: what chunker(full_text) returned
    payload,      \* payload[r]: <<payload>> once built, <<>> before
    attempt,      \* attempt[r]: the loop variable of send_to_laravel_with_retry
    sent,         \* sent[r]: the outbound POSTs of task r, in order
    outcomes,     \* outcomes[r]: how each of these attempts ended, in order
    waits,        \* waits[r]: the backoff sleeps of task r, in seconds, in order
    log,          \* log[r]: the records task r wrote to the logger, in order
    escaped,      \* escaped[r]: the exception that left process_lesson, if any
    retries,      \* retries[r]: the `retries` argument of task r's call of
                  \*             send_to_laravel_with_retry
    result        \* result[r]: how that call ended: "json" (it returned
                  \*            response.json()), "None" (it fell off the loop),
                  \*            "raised", or "none" (not ended, or never made)

vars == <<req, resp, pc, chunked_objs, payload, attempt, sent, outcomes, waits,
          log, escaped, retries, result>>

\* pc[r]:  "none"     no background task (not yet, or the request was rejected)
\*         "queued"   added with add_task, not started
\*         "posting"  suspended in `await client.post(...)`
\*         "sleeping" suspended in `await asyncio.sleep(...)`
\*         "done"     process_lesson returned
\*         "crashed"  process_lesson ended by an exception it did not catch

\* Faulty variant of TaskData: the tasks read the lesson from one shared place, which
\* holds the lesson of the request answered last (here: of the highest number).
TaskDataShared(r) ==
    LET answered == {q \in Reqs : resp[q] # NoResponse}
    IN  req[CHOOSE q \in answered : \A o \in answered : o <= q].data

\* The `data` a task was scheduled with: add_task(process_lesson, data).
TaskData(r) == req[r].data

\* The loop variable `attempt` of task r's call of send_to_laravel_with_retry.
LoopAttempt(r) == attempt[r]

InitTasks ==
    /\ resp = [r \in Reqs |-> NoResponse]
    /\ pc = [r \in Reqs |-> "none"]
    /\ chunked_objs = [r \in Reqs |-> <<>>]
    /\ payload = [r \in Reqs |-> <<>>]
    /\ attempt = [r \in Reqs |-> 0]
    /\ sent = [r \in Reqs |-> <<>>]
    /\ outcomes = [r \in Reqs |-> <<>>]
    /\ waits = [r \in Reqs |-> <<>>]
    /\ log = [r \in Reqs |-> <<>>]
    /\ escaped = [r \in Reqs |-> "none"]
    /\ result = [r \in Reqs |-> "none"]

\* process_lesson calls send_to_laravel_with_retry(payload): retries defaults to 3.
DefaultRetries == retries = [r \in Reqs |-> Retries]

\* One client, any request.
Init ==
    /\ req \in {[r \in Reqs |-> IF r = 1 THEN q ELSE NoReq] : q \in Requests}
    /\ InitTasks
    /\ DefaultRetries

\* One client, with a request out of FairRequests.
InitFair ==
    /\ req \in {[r \in Reqs |-> IF r = 1 THEN q ELSE NoReq] : q \in FairRequests}
    /\ InitTasks
    /\ DefaultRetries

\* NumReqs clients, each with an acceptable request of its own.
InitConc ==
    /\ req \in {f \in [Reqs -> UNION {ConcRequests(r) : r \in Reqs}] :
                    \A r \in Reqs : f[r] \in ConcRequests(r)}
    /\ InitTasks
    /\ DefaultRetries

\* Two clients whose requests differ only in type (further clients send nothing).
InitPair ==
    /\ req \in {[r \in Reqs |-> IF r <= 2 THEN pr[r] ELSE NoReq] : pr \in PairRequests}
    /\ InitTasks
    /\ DefaultRetries

\* One client with an accepted request; the delivery call of its task is made
\* with any `retries` argument out of RetriesArgs.
InitCall ==
    /\ req \in {[r \in Reqs |-> IF r = 1 THEN q ELSE NoReq] : q \in CallRequests}
    /\ InitTasks
    /\ retries \in {[r \in Reqs |-> IF r = 1 THEN n ELSE Retries] : n \in RetriesArgs}

(***************************************************************************)
(* POST /chunk: chunk_lesson with its dependency verify_api_key.  The      *)
(* handler has no await of its own: it answers in one step, and the        *)
(* background task starts after the response.                              *)
(***************************************************************************)
chunk_lesson(r) ==
    /\ req[r] # NoReq
    /\ resp[r] = NoResponse
    /\ resp' = [resp EXCEPT ![r] = Response(req[r].header, req[r].data)]
    /\ pc' = [pc EXCEPT ![r] =
                IF SchedulesTask(req[r].header, req[r].data) THEN "queued" ELSE "none"]
    /\ UNCHANGED <<req, chunked_objs, payload, attempt, sent, outcomes, waits,
                   log, escaped, retries, result>>

(***************************************************************************)
(* process_lesson, from its start to its first await (or its end).         *)
(***************************************************************************)
\* Faulty variant of NoChunks: the empty result is not checked.
NoChunksIgnored(chunks) == FALSE

\* if not chunks: raise ValueError("No chunks produced.")
NoChunks(chunks) == chunks = <<>>

\* The task ends in the chunking except-branch: logger.error(...); return.
\* The record carries the exception: the chunker's own, or the ValueError.
ChunkingFails(r, co) ==
    /\ chunked_objs' = [chunked_objs EXCEPT ![r] = co.objs]
    /\ log' = [log EXCEPT ![r] =
                 Append(@, LogRec("ERROR",
                                  IF co.raises
                                  THEN "Chunking failed for lesson: chunker error"
                                  ELSE "Chunking failed for lesson: No chunks produced.",
                                  TaskData(r).lesson_id))]
    /\ pc' = [pc EXCEPT ![r] = "done"]
    /\ UNCHANGED <<req, resp, payload, attempt, sent, outcomes, waits, escaped,
                   retries, result>>

\* print(payload) raises: no try block encloses it, the exception leaves the task.
PrintRaises(r, objs, p) ==
    /\ chunked_objs' = [chunked_objs EXCEPT ![r] = objs]
    /\ payload' = [payload EXCEPT ![r] = <<p>>]
    /\ escaped' = [escaped EXCEPT ![r] = "print_error"]
    /\ pc' = [pc EXCEPT ![r] = "crashed"]
    /\ UNCHANGED <<req, resp, attempt, sent, outcomes, waits, log, retries, result>>

\* send_to_laravel_with_retry(payload) is entered: `for attempt in
\* range(retries)` starts at 0 and the first POST is issued.
FirstAttempt(r, objs, p) ==
    /\ chunked_objs' = [chunked_objs EXCEPT ![r] = objs]
    /\ payload' = [payload EXCEPT ![r] = <<p>>]
    /\ IF LoopRuns(0, retries[r])
       THEN /\ attempt' = [attempt EXCEPT ![r] = 0]
            /\ sent' = [sent EXCEPT ![r] = Append(@, OutboundRequest(p))]
            /\ pc' = [pc EXCEPT ![r] = "posting"]
            /\ UNCHANGED <<log, result>>
       ELSE \* the loop body never runs: the call returns None, which
            \* process_lesson takes for a delivery
            /\ result' = [result EXCEPT ![r] = "None"]
            /\ log' = [log EXCEPT ![r] =
                         Append(@, LogRec("INFO", "Successfully processed and sent lesson",
                                          TaskData(r).lesson_id))]
            /\ pc' = [pc EXCEPT ![r] = "done"]
            /\ UNCHANGED <<attempt, sent>>
    /\ UNCHANGED <<req, resp, outcomes, waits, escaped, retries>>

process_lesson(r) ==
    /\ pc[r] = "queued"
    /\ LET data == TaskData(r)
           full_text == Strip(data.lesson_content)
       IN  \E co \in ChunkerOutcomes(full_text), printed \in BOOLEAN :
             LET chunks == IF co.raises THEN <<>> ELSE BuildChunks(co.objs)
                 p == BuildPayload(data, full_text, chunks)
             IN  IF co.raises \/ NoChunks(chunks)
                 THEN ChunkingFails(r, co)
                 ELSE IF ~printed
                      THEN PrintRaises(r, co.objs, p)
                      ELSE FirstAttempt(r, co.objs, p)

(***************************************************************************)
(* send_to_laravel_with_retry: `await client.post(...)` comes back.        *)
(***************************************************************************)
\* What task r logs, from the end of the await to its next suspension or end.
PostLog(r, outcome) ==
    LET lid == TaskData(r).lesson_id
        warn == LogRec("WARNING", "Failed to send to Laravel, attempt",
                       LoopAttempt(r) + 1)
        final == LogRec("ERROR", "Final failure sending lesson", lid)
        \* logger.info("Successfully sent to Laravel.") precedes response.json()
        info == IF outcome \in {"ok", "bad_json"}
                THEN <<LogRec("INFO", "Successfully sent to Laravel.", lid)>>
                ELSE <<>>
    IN  info \o
        CASE outcome = "ok" ->
               <<LogRec("INFO", "Successfully processed and sent lesson", lid)>>
          [] IsHTTPError(outcome) /\ RetriesLeft(LoopAttempt(r), retries[r]) ->
               <<warn>>
          [] IsHTTPError(outcome) ->
               <<warn,
                 LogRec("ERROR", "All retries failed. Could not send payload for lesson",
                        payload[r][1].lesson_id),
                 final>>
          [] OTHER ->
               <<final>>

post_returns(r) ==
    /\ pc[r] = "posting"
    /\ \E outcome \in PostOutcomes :
         /\ outcomes' = [outcomes EXCEPT ![r] = Append(@, outcome)]
         /\ log' = [log EXCEPT ![r] = @ \o PostLog(r, outcome)]
         /\ IF IsHTTPError(outcome) /\ RetriesLeft(LoopAttempt(r), retries[r])
            THEN \* await asyncio.sleep(delay * (2 ** attempt))
                 /\ waits' = [waits EXCEPT ![r] = Append(@, Backoff(LoopAttempt(r)))]
                 /\ pc' = [pc EXCEPT ![r] = "sleeping"]
                 /\ result' = result
            ELSE \* return, or raise into process_lesson's `except Exception`
                 /\ waits' = waits
                 /\ pc' = [pc EXCEPT ![r] = "done"]
                 /\ result' = [result EXCEPT ![r] =
                                  IF outcome = "ok" THEN "json" ELSE "raised"]
    /\ UNCHANGED <<req, resp, chunked_objs, payload, attempt, sent, escaped, retries>>

(***************************************************************************)
(* send_to_laravel_with_retry: the backoff sleep ends, the loop goes on    *)
(* with the next value of `attempt` and issues the next POST.              *)
(***************************************************************************)
\* Faulty variant of AttemptRequest: the payload is stamped with the attempt number.
AttemptRequestStamped(r) ==
    [OutboundRequest(payload[r][1]) EXCEPT !.json.lesson_id = @ + LoopAttempt(r) + 1]

\* The request of a later attempt: the same `payload` and `headers` locals.
AttemptRequest(r) == OutboundRequest(payload[r][1])

sleep_returns(r) ==
    /\ pc[r] = "sleeping"
    /\ attempt' = [attempt EXCEPT ![r] = LoopAttempt(r) + 1]
    /\ IF LoopRuns(LoopAttempt(r) + 1, retries[r])
       THEN /\ sent' = [sent EXCEPT ![r] = Append(@, AttemptRequest(r))]
            /\ pc' = [pc EXCEPT ![r] = "posting"]
            /\ UNCHANGED <<log, result>>
       ELSE \* range(retries) is used up: the call returns None
            /\ result' = [result EXCEPT ![r] = "None"]
            /\ log' = [log EXCEPT ![r] =
                         Append(@, LogRec("INFO", "Successfully processed and sent lesson",
                                          TaskData(r).lesson_id))]
            /\ pc' = [pc EXCEPT ![r] = "done"]
            /\ sent' = sent
    /\ UNCHANGED <<req, resp, chunked_objs, payload, outcomes, waits, escaped, retries>>

Next ==
    \E r \in Reqs :
        \/ chunk_lesson(r)
        \/ process_lesson(r)
        \/ post_returns(r)
        \/ sleep_returns(r)

Spec == Init /\ [][Next]_vars

\* The event loop resumes every task that can run; every network attempt
\* returns or times out (timeout=50.0) and every sleep ends.
Fair ==
    \A r \in Reqs :
        /\ WF_vars(process_lesson(r))
        /\ WF_vars(post_returns(r))
        /\ WF_vars(sleep_returns(r))

SpecFair == InitFair /\ [][Next]_vars /\ Fair

SpecConc == InitConc /\ [][Next]_vars

SpecPair == InitPair /\ [][Next]_vars

SpecCall == InitCall /\ [][Next]_vars

(***************************************************************************)
(* Properties.                                                             *)
(***************************************************************************)
RECURSIVE Concat(_)
\* The concatenation of a sequence of texts.
Concat(ts) == IF ts = <<>> THEN <<>> ELSE Head(ts) \o Concat(Tail(ts))

\* The background task of request r has run its first step.
Started(r) == pc[r] \notin {"none", "queued"}

\* The last record task r logged is (level, msg).
LastLogged(r, level, msg) ==
    /\ log[r] # <<>>
    /\ log[r][Len(log[r])].level = level
    /\ log[r][Len(log[r])].msg = msg

\* Every delivery attempt of task r so far ended in an httpx.HTTPError.
OnlyHTTPErrors(r) ==
    /\ outcomes[r] # <<>>
    /\ \A i \in DOMAIN outcomes[r] : outcomes[r][i] = "http_error"

\* C1: against a target that always fails with a transport or HTTP-status
\* error, the task makes exactly Retries (3) attempts, sleeps only between
\* attempts (Retries - 1 sleeps, none after the last attempt), then the call
\* raises; process_lesson catches it, logs the final failure and returns:
\* no exception leaves the task.
C1_AlwaysFailingTarget ==
    \A r \in Reqs :
        OnlyHTTPErrors(r) =>
            /\ Len(sent[r]) <= Retries
            /\ Len(waits[r]) <= Retries - 1
            /\ pc[r] \in {"sleeping", "posting", "done"}
            /\ escaped[r] = "none"
            /\ pc[r] = "sleeping" =>
                   Len(waits[r]) = Len(outcomes[r]) /\ Len(sent[r]) = Len(outcomes[r])
            /\ pc[r] = "posting" =>
                   Len(waits[r]) = Len(outcomes[r]) /\ Len(sent[r]) = Len(outcomes[r]) + 1
            /\ Len(outcomes[r]) = Retries <=> pc[r] = "done"
            /\ pc[r] = "done" =>
                   /\ Len(sent[r]) = Retries
                   /\ Len(waits[r]) = Retries - 1
                   /\ Len(log[r]) = Retries + 2
                   /\ log[r][Retries + 1].msg =
                          "All retries failed. Could not send payload for lesson"
                   /\ LastLogged(r, "ERROR", "Final failure sending lesson")

\* C1 witness: a task whose target failed every time has given up.
C1_Witness ==
    \E r \in Reqs :
        /\ OnlyHTTPErrors(r)
        /\ pc[r] = "done"
        /\ Len(sent[r]) = 3
        /\ Len(waits[r]) = 2

\* Task r's target failed with HTTP errors until its last attempt, which succeeded.
FailsThenSucceeds(r) ==
    /\ outcomes[r] # <<>>
    /\ outcomes[r][Len(outcomes[r])] = "ok"
    /\ \A i \in 1..(Len(outcomes[r]) - 1) : outcomes[r][i] = "http_error"

\* C2: if the first k attempts fail (k < Retries) and attempt k+1 succeeds,
\* exactly k+1 attempts are made, the task ends there with the success logged
\* (no attempt or sleep follows), and the sleep after the i-th failure lasted
\* Delay * 2^(i-1) seconds: 2 s then 4 s when the third attempt succeeds.
C2_FailsThenSucceeds ==
    \A r \in Reqs :
        /\ \A i \in DOMAIN waits[r] : waits[r][i] = Delay * (2 ^ (i - 1))
        /\ FailsThenSucceeds(r) =>
               /\ Len(outcomes[r]) <= Retries
               /\ Len(sent[r]) = Len(outcomes[r])
               /\ Len(waits[r]) = Len(outcomes[r]) - 1
               /\ Len(outcomes[r]) = 3 => waits[r] = <<2, 4>>
               /\ pc[r] = "done"
               /\ escaped[r] = "none"
               /\ LastLogged(r, "INFO", "Successfully processed and sent lesson")

\* C2 witness: delivered on the third attempt after two failures.
C2_Witness ==
    \E r \in Reqs :
        /\ outcomes[r] = <<"http_error", "http_error", "ok">>
        /\ Len(sent[r]) = 3
        /\ pc[r] = "done"

\* Request r has been answered.
Answered(r) == req[r] # NoReq /\ resp[r] # NoResponse

\* Request r carries no API-key header, or one that is not the configured key.
BadKey(r) == ~req[r].header.present \/ req[r].header.value # API_KEY

\* Nothing of a background task exists for request r.
NoTask(r) ==
    /\ pc[r] = "none"
    /\ chunked_objs[r] = <<>>
    /\ payload[r] = <<>>
    /\ sent[r] = <<>>
    /\ log[r] = <<>>

\* C3 as stated: a missing or wrong API-key header always yields 401,
\* whatever the lesson type.
C3_MissingOrWrongKeyIs401 ==
    \A r \in Reqs :
        (Answered(r) /\ BadKey(r)) => resp[r].status = 401

\* C3 as amended: a header that is present with a wrong value always yields 401
\* Unauthorized, whatever the lesson type; an absent header yields 422; in both
\* cases no background task is scheduled.
C3_WrongKeyIs401 ==
    \A r \in Reqs :
        (Answered(r) /\ BadKey(r)) =>
            /\ req[r].header.present => resp[r] = Unauthorized
            /\ ~req[r].header.present => resp[r].status = 422
            /\ NoTask(r)

\* C3 witness: a wrong key with an undocumented lesson type was answered 401.
C3_Witness ==
    \E r \in Reqs :
        /\ Answered(r)
        /\ req[r].header = Header("wrong")
        /\ req[r].data.type \notin ValidTypes
        /\ resp[r].status = 401

\* C4 as stated: a type outside {created, updated, deleted} always yields 400
\* and no background task is scheduled (stated here for the requests that
\* carry an API-key header).
C4_BadTypeIs400 ==
    \A r \in Reqs :
        ( /\ Answered(r)
          /\ req[r].header.present
          /\ req[r].data.type \notin ValidTypes )
        => (resp[r].status = 400 /\ NoTask(r))

\* C4 as amended: a type outside {created, updated, deleted} never gets a
\* background task scheduled, and yields 400 exactly when the API-key check
\* passes (a wrong key yields 401 and an absent one 422 before the type is
\* looked at).
C4_BadTypeNeverScheduled ==
    \A r \in Reqs :
        (req[r] # NoReq /\ req[r].data.type \notin ValidTypes) =>
            /\ NoTask(r)
            /\ Answered(r) =>
                   /\ ~BadKey(r) => resp[r] = InvalidType
                   /\ BadKey(r) => resp[r].status \in {401, 422}

\* C4 witness: a valid key with an undocumented type was answered 400.
C4_Witness ==
    \E r \in Reqs :
        /\ Answered(r)
        /\ ~BadKey(r)
        /\ req[r].data.type = "archived"
        /\ resp[r].status = 400
        /\ pc[r] = "none"

\* C5: the handler of an accepted request only enqueues the task and answers
\* with the fixed acknowledgement: the step that answers leaves the task
\* queued with nothing chunked, built, sent or logged; and the response of a
\* request whose task exists is the acknowledgement before and after every
\* later step, however chunking and delivery end.
C5_AckBeforeProcessing ==
    [][\A r \in Reqs :
          /\ (resp[r] = NoResponse /\ pc'[r] # "none") =>
                 /\ resp'[r] = Accepted
                 /\ pc'[r] = "queued"
                 /\ chunked_objs'[r] = <<>> /\ payload'[r] = <<>>
                 /\ sent'[r] = <<>> /\ outcomes'[r] = <<>> /\ log'[r] = <<>>
          /\ (resp[r] # NoResponse) => resp'[r] = resp[r]
          /\ (pc[r] # "none") => resp[r] = Accepted]_vars

\* C5 witness: an acknowledged request whose delivery exhausted its retries.
C5_Witness ==
    \E r \in Reqs :
        /\ resp[r] = Accepted
        /\ pc[r] = "done"
        /\ OnlyHTTPErrors(r)
        /\ Len(outcomes[r]) = Retries

\* The chunker itself raised in task r (the log record carries its exception).
ChunkerRaised(r) ==
    \E i \in DOMAIN log[r] : log[r][i].msg = "Chunking failed for lesson: chunker error"

\* The texts of a chunk list, in list order.
ChunkTexts(cs) == [i \in 1..Len(cs) |-> cs[i].text]

\* Task r built a payload whose chunk list is non-empty and concatenates to
\* the trimmed lesson content, and handed it to delivery (unless printing the
\* payload ended the task, see C9).
ChunkedAndHandedOver(r) ==
    /\ payload[r] # <<>>
    /\ Len(payload[r][1].chunks) >= 1
    /\ Concat(ChunkTexts(payload[r][1].chunks)) = Strip(req[r].data.lesson_content)
    /\ payload[r][1].text = Strip(req[r].data.lesson_content)
    /\ \/ pc[r] = "crashed"
       \/ Len(sent[r]) >= 1 /\ sent[r][1].json = payload[r][1]

SegsBefore(cs, j) == Len(Concat(ChunkTexts(SubSeq(cs, 1, j - 1))))

\* C7: in every payload handed to delivery the chunk list has n >= 1 entries,
\* their chunk_index values are 0, 1, ..., n-1 in list order, and the entries
\* are the chunker's chunks in the order they lie in the source text: each
\* entry's text is the slice of the payload's text that starts where the
\* previous entry's slice ends.
C7_ChunkIndicesInSourceOrder ==
    \A r \in Reqs :
        \A a \in DOMAIN sent[r] :
            LET p == sent[r][a].json
                cs == p.chunks
            IN  /\ Len(cs) >= 1
                /\ Len(cs) = Len(chunked_objs[r])
                /\ \A j \in DOMAIN cs :
                       /\ cs[j].chunk_index = j - 1
                       /\ cs[j].text = chunked_objs[r][j].text
                       /\ cs[j].text # <<>>
                       /\ cs[j].text = SubSeq(p.text, SegsBefore(cs, j) + 1,
                                              SegsBefore(cs, j) + Len(cs[j].text))
                       /\ chunked_objs[r][j].start_index =
                              CharLen(SubSeq(p.text, 1, SegsBefore(cs, j)))

\* C7 witness: a posted payload with three chunks, indexed 0, 1, 2.
C7_Witness ==
    \E r \in Reqs :
        /\ Len(sent[r]) >= 1
        /\ Len(sent[r][1].json.chunks) = 3
        /\ sent[r][1].json.chunks[3].chunk_index = 2

\* Chunking failed in task r: the chunker raised, or nothing was produced.
ChunkingFailed(r) == Started(r) /\ (ChunkerRaised(r) \/ chunked_objs[r] = <<>>)

\* C8: if chunking raises or yields nothing (as it does for empty and for
\* whitespace-only content), process_lesson logs one error and returns: no
\* payload, no outbound attempt, no sleep, no exception leaving the task.
C8_ChunkingFailureEndsSilently ==
    \A r \in Reqs :
        /\ ChunkingFailed(r) =>
               /\ pc[r] = "done"
               /\ escaped[r] = "none"
               /\ payload[r] = <<>>
               /\ sent[r] = <<>>
               /\ outcomes[r] = <<>>
               /\ waits[r] = <<>>
               /\ attempt[r] = 0
               /\ Len(log[r]) = 1
               /\ log[r][1].level = "ERROR"
               /\ log[r][1].msg \in {"Chunking failed for lesson: chunker error",
                                     "Chunking failed for lesson: No chunks produced."}
        /\ (Started(r) /\ Strip(req[r].data.lesson_content) = <<>>) => ChunkingFailed(r)

\* C8 witness: whitespace-only content ended with "No chunks produced." logged.
C8_Witness ==
    \E r \in Reqs :
        /\ req[r] # NoReq
        /\ req[r].data.lesson_content # <<>>
        /\ Strip(req[r].data.lesson_content) = <<>>
        /\ pc[r] = "done"
        /\ log[r] = <<LogRec("ERROR", "Chunking failed for lesson: No chunks produced.",
                             req[r].data.lesson_id)>>

\* C9 as stated: process_lesson never raises, whatever stage fails.
C9_ProcessLessonNeverRaises ==
    \A r \in Reqs : pc[r] # "crashed" /\ escaped[r] = "none"

\* What task r posts when it runs alone: the payload built from its own
\* request and from its own chunker result.
OwnPayload(r) ==
    LET data == req[r].data
    IN  [title     |-> Strip(data.lesson_title),
         text      |-> Strip(data.lesson_content),
         course_id |-> data.course_id,
         lesson_id |-> data.lesson_id,
         type      |-> data.type,
         chunks    |-> [i \in 1..Len(chunked_objs[r]) |->
                           [text |-> chunked_objs[r][i].text, chunk_index |-> i - 1]]]

\* C10: under any interleaving of the background tasks of concurrent requests,
\* every outbound payload of a task holds the ids, title, text, type and
\* chunks of its own request only, every log record names its own lesson, and
\* the task's attempt counter and backoff sleeps are those of a task running
\* alone: attempt = number of POSTs - 1, at most Retries POSTs, the i-th sleep
\* lasting Delay * 2^(i-1), one sleep per failed attempt that is retried.
C10_TasksAreIndependent ==
    \A r \in Reqs :
        /\ payload[r] # <<>> => payload[r][1] = OwnPayload(r)
        /\ \A a \in DOMAIN sent[r] :
               /\ sent[r][a].json = OwnPayload(r)
               /\ sent[r][a].json.course_id = r
               /\ sent[r][a].json.lesson_id = 40 + r
               /\ Concat(ChunkTexts(sent[r][a].json.chunks)) =
                      Strip(req[r].data.lesson_content)
        /\ \A i \in DOMAIN log[r] :
               log[r][i].msg # "Failed to send to Laravel, attempt" =>
                   log[r][i].arg = req[r].data.lesson_id
        /\ Len(sent[r]) <= Retries
        /\ sent[r] # <<>> => attempt[r] = Len(sent[r]) - 1
        /\ sent[r] = <<>> => attempt[r] = 0
        /\ waits[r] = [i \in 1..attempt[r] |-> Delay * (2 ^ (i - 1))]
               \/ (pc[r] = "sleeping" /\
                   waits[r] = [i \in 1..(attempt[r] + 1) |-> Delay * (2 ^ (i - 1))])

\* C10 witness: two tasks in flight at once, one asleep in its second backoff
\* while the other, started before it woke, awaits its second POST.
C10_Witness ==
    \E r1, r2 \in Reqs :
        /\ r1 # r2
        /\ pc[r1] = "sleeping" /\ waits[r1] = <<2, 4>>
        /\ pc[r2] = "posting" /\ Len(sent[r2]) = 2
        /\ sent[r1][1].json # sent[r2][1].json

\* The background task of request r has ended.
Ended(r) == pc[r] \in {"done", "crashed"}

\* The terminal outcomes of a background task.
EndedChunkingFailed(r) ==
    pc[r] = "done" /\ ChunkingFailed(r) /\ sent[r] = <<>>

EndedDelivered(r) ==
    /\ pc[r] = "done"
    /\ outcomes[r] # <<>>
    /\ outcomes[r][Len(outcomes[r])] = "ok"
    /\ LastLogged(r, "INFO", "Successfully processed and sent lesson")

EndedRetriesExhausted(r) ==
    /\ pc[r] = "done"
    /\ OnlyHTTPErrors(r)
    /\ Len(outcomes[r]) = Retries
    /\ LastLogged(r, "ERROR", "Final failure sending lesson")

EndedOtherException(r) ==
    /\ pc[r] = "done"
    /\ outcomes[r] # <<>>
    /\ outcomes[r][Len(outcomes[r])] \in {"bad_json", "other_error"}
    /\ LastLogged(r, "ERROR", "Final failure sending lesson")

EndedInPrint(r) ==
    pc[r] = "crashed" /\ escaped[r] = "print_error" /\ sent[r] = <<>>

\* How many of the given conditions hold.
HowMany(conds) == Cardinality({i \in DOMAIN conds : conds[i]})

\* C11 as stated (for the tasks that returned): a task ends in exactly one of
\* three outcomes: chunking failed with no delivery attempt, delivered, or
\* delivery failed after exhausting its retries.
C11_ThreeOutcomes ==
    \A r \in Reqs :
        pc[r] = "done" =>
            HowMany(<<EndedChunkingFailed(r), EndedDelivered(r),
                      EndedRetriesExhausted(r)>>) = 1

\* What holds of every task in every state: at most Retries attempts, and an
\* ended task is in exactly one of its terminal outcomes.
C11_Outcomes ==
    \A r \in Reqs :
        /\ Len(sent[r]) <= Retries
        /\ Len(outcomes[r]) <= Len(sent[r])
        /\ Len(waits[r]) <= Retries - 1
        /\ Ended(r) =>
               HowMany(<<EndedChunkingFailed(r), EndedDelivered(r),
                         EndedRetriesExhausted(r), EndedOtherException(r),
                         EndedInPrint(r)>>) = 1

\* C11 as amended: every dispatched task eventually ends (each attempt returns
\* or times out, each sleep ends), in exactly one of: chunking failed with no
\* delivery attempt; delivered; delivery failed after exhausting its retries
\* on HTTP errors; delivery failed at the first attempt that raised another
\* exception; ended by an exception of print(payload) with no delivery
\* attempt.  It never makes more than Retries (3) attempts.
C11_TaskTerminates ==
    /\ []C11_Outcomes
    /\ \A r \in Reqs : (pc[r] = "queued") ~> Ended(r)

\* C11 witness: a task that failed once with an HTTP error, was retried, and
\* ended on a response that was not JSON.
C11_Witness ==
    \E r \in Reqs :
        /\ pc[r] = "done"
        /\ outcomes[r] = <<"http_error", "bad_json">>
        /\ Len(sent[r]) = 2
        /\ EndedOtherException(r)

\* Text t is raw with its leading and trailing whitespace removed, and
\* nothing else: raw is whitespace, then t, then whitespace, and t neither
\* starts nor ends with whitespace.
IsTrimOf(t, raw) ==
    /\ t = <<>> \/ (t[1].k # "ws" /\ t[Len(t)].k # "ws")
    /\ \E i \in 0..Len(raw) :
           /\ i + Len(t) <= Len(raw)
           /\ t = SubSeq(raw, i + 1, i + Len(t))
           /\ \A j \in 1..i : raw[j].k = "ws"
           /\ \A j \in (i + Len(t) + 1)..Len(raw) : raw[j].k = "ws"

\* C12: every payload posted for an accepted request has exactly the fields
\* title, text, course_id, lesson_id, type and chunks; text is the trimmed
\* lesson_content and is the text that was chunked (the chunks concatenate to
\* it); title is the trimmed lesson_title; course_id, lesson_id and type are
\* the request's values unchanged.
C12_PayloadFields ==
    \A r \in Reqs :
        \A a \in DOMAIN sent[r] :
            LET p == sent[r][a].json
                data == req[r].data
            IN  /\ DOMAIN p = {"title", "text", "course_id", "lesson_id", "type", "chunks"}
                /\ IsTrimOf(p.text, data.lesson_content)
                /\ Concat(ChunkTexts(p.chunks)) = p.text
                /\ Concat([i \in 1..Len(chunked_objs[r]) |-> chunked_objs[r][i].text]) = p.text
                /\ IsTrimOf(p.title, data.lesson_title)
                /\ p.course_id = data.course_id
                /\ p.lesson_id = data.lesson_id
                /\ p.type = data.type
                /\ \A i \in DOMAIN p.chunks :
                       DOMAIN p.chunks[i] = {"text", "chunk_index"}

\* C12 witness: a posted payload whose title and text were both trimmed.
C12_Witness ==
    \E r \in Reqs :
        /\ Len(sent[r]) >= 1
        /\ req[r].data.lesson_title = <<Seg("ws", 1), Seg("txt", 5), Seg("ws", 1)>>
        /\ sent[r][1].json.title = <<Seg("txt", 5)>>
        /\ req[r].data.lesson_content = <<Seg("ws", 101), Seg("txt", 60), Seg("ws", 1)>>
        /\ sent[r][1].json.text = <<Seg("txt", 60)>>
        /\ sent[r][1].json.type = "updated"

\* Request r passes both checks of POST /chunk.
PassesChecks(r) ==
    /\ req[r] # NoReq
    /\ req[r].header.present
    /\ req[r].header.value = API_KEY
    /\ req[r].data.type \in ValidTypes

\* In every state: whatever exists of a background task belongs to a request
\* that passed both checks and was acknowledged; a rejected request has no
\* task, nothing chunked and nothing posted; an accepted one has its task.
C13_TasksOfAcceptedOnly ==
    \A r \in Reqs :
        /\ ~NoTask(r) => (PassesChecks(r) /\ resp[r] = Accepted)
        /\ (req[r] # NoReq /\ resp[r].status \in {400, 401, 422}) =>
               (NoTask(r) /\ outcomes[r] = <<>> /\ waits[r] = <<>>)
        /\ (PassesChecks(r) /\ resp[r] # NoResponse) => pc[r] # "none"

\* C13: a background task exists only for a request that passed the API-key
\* check and the type check; exactly one task is scheduled per accepted
\* request (a task is queued only by the step that answers its request, which
\* is answered once, and a started task is never queued again); a request
\* rejected with 401 or 400 (or 422) triggers no chunking and no outbound POST.
C13_OneTaskPerAcceptedRequest ==
    /\ []C13_TasksOfAcceptedOnly
    /\ [][\A r \in Reqs :
            /\ (pc[r] # "queued" /\ pc'[r] = "queued") =>
                   (pc[r] = "none" /\ resp[r] = NoResponse /\ resp'[r] = Accepted)
            /\ (resp[r] # NoResponse) => resp'[r] = resp[r]
            /\ (pc[r] = "none" /\ resp[r] # NoResponse) => pc'[r] = "none"]_vars

\* C13 witness: a request with a valid key and an undocumented type was
\* rejected with 400 and has no task.
C13_Witness ==
    \E r \in Reqs :
        /\ req[r] # NoReq
        /\ req[r].header = Header(API_KEY)
        /\ req[r].data.type = ""
        /\ req[r].data.lesson_content # <<>>
        /\ resp[r] = InvalidType
        /\ NoTask(r)

\* The records of task r's log with the given message.
Logged(r, msg) == {i \in DOMAIN log[r] : log[r][i].msg = msg}

\* The last delivery attempt of task r raised something that is not an
\* httpx.HTTPError.
LastAttemptRaisedOther(r) ==
    /\ outcomes[r] # <<>>
    /\ outcomes[r][Len(outcomes[r])] \in {"bad_json", "other_error"}

\* C14: only httpx.HTTPError is retried. When an attempt raises anything else
\* (in particular response.json() on a success-status response whose body is
\* not JSON), that attempt is the last one: no wait follows it and no further
\* POST is made (every earlier attempt failed with an HTTPError and was
\* followed by one wait), the retry handler's warning and "All retries
\* failed" records are not written for it, the exception reaches
\* process_lesson, which logs the final delivery failure and returns.
C14_OnlyHTTPErrorIsRetried ==
    \A r \in Reqs :
        LastAttemptRaisedOther(r) =>
            /\ pc[r] = "done"
            /\ result[r] = "raised"
            /\ escaped[r] = "none"
            /\ Len(sent[r]) = Len(outcomes[r])
            /\ Len(waits[r]) = Len(outcomes[r]) - 1
            /\ \A i \in 1..(Len(outcomes[r]) - 1) : outcomes[r][i] = "http_error"
            /\ Cardinality(Logged(r, "Failed to send to Laravel, attempt")) =
                   Len(outcomes[r]) - 1
            /\ Logged(r, "All retries failed. Could not send payload for lesson") = {}
            /\ Logged(r, "Successfully processed and sent lesson") = {}
            /\ LastLogged(r, "ERROR", "Final failure sending lesson")
            /\ Cardinality(Logged(r, "Final failure sending lesson")) = 1

\* C14 witness: the first attempt got a success status with a body that is
\* not JSON; the task ended after that one POST without waiting.
C14_Witness ==
    \E r \in Reqs :
        /\ outcomes[r] = <<"bad_json">>
        /\ Len(sent[r]) = 1
        /\ waits[r] = <<>>
        /\ pc[r] = "done"
        /\ LastLogged(r, "ERROR", "Final failure sending lesson")

\* In every state: each POST task r has made carries the payload the task
\* built, goes to the configured URL and carries the configured secret in
\* X-Internal-API-Key, so all POSTs of one call are equal; one POST was made
\* per value the attempt counter has taken.
C15_SameRequestSoFar ==
    \A r \in Reqs :
        sent[r] # <<>> =>
            /\ Len(payload[r]) = 1
            /\ Len(sent[r]) = attempt[r] + 1
            /\ \A a \in DOMAIN sent[r] :
                   /\ sent[r][a].json = payload[r][1]
                   /\ sent[r][a].url = LARAVEL_API_URL
                   /\ sent[r][a].headers = [X_Internal_API_Key |-> API_KEY]
                   /\ sent[r][a] = sent[r][1]

\* C15: across the attempts of one send_to_laravel_with_retry call every POST
\* is the same request: the same payload, which no step changes once it is
\* built, the configured URL, and the X-Internal-API-Key header equal to the
\* configured secret; between two attempts only the attempt counter changes
\* (it grows by one with each further POST).
C15_AttemptsSendSameRequest ==
    /\ []C15_SameRequestSoFar
    /\ [][\A r \in Reqs :
            /\ payload[r] # <<>> => payload'[r] = payload[r]
            /\ (sent[r] # <<>> /\ sent'[r] # sent[r]) =>
                   /\ sent'[r] = Append(sent[r], sent[r][1])
                   /\ attempt'[r] = attempt[r] + 1]_vars

\* C15 witness: a task that made all three attempts.
C15_Witness ==
    \E r \in Reqs :
        /\ Len(sent[r]) = Retries
        /\ attempt[r] = Retries - 1
        /\ waits[r] = <<Backoff(0), Backoff(1)>>
        /\ sent[r][Retries] = sent[r][1]
        /\ sent[r][1].json = payload[r][1]

\* Requests a and b were both accepted and are the same but for their type.
SameButType(a, b) ==
    /\ PassesChecks(a) /\ PassesChecks(b)
    /\ resp[a] = Accepted /\ resp[b] = Accepted
    /\ req[a].header = req[b].header
    /\ \A f \in {"course_id", "lesson_id", "lesson_title", "lesson_content"} :
           req[a].data[f] = req[b].data[f]

\* Tasks a and b stand at the same place and have met the same environment:
\* the same chunker result and the same outcomes of their POSTs.
SameInputs(a, b) ==
    /\ pc[a] = pc[b]
    /\ chunked_objs[a] = chunked_objs[b]
    /\ ChunkerRaised(a) = ChunkerRaised(b)
    /\ outcomes[a] = outcomes[b]

\* A payload without its type field; a POST without its payload's type field.
NoType(p) == [f \in DOMAIN p \ {"type"} |-> p[f]]
PostNoType(s) == [s EXCEPT !.json = NoType(s.json)]

\* C16: the type tag does not influence background processing. Two accepted
\* requests that differ only in type, whose tasks stand at the same place
\* after the same chunker result and the same POST outcomes, have logged the
\* same records, waited the same delays, ended their calls the same way and
\* built and posted, as often, payloads that are equal but for the type
\* field, which carries each request's own type. And a "deleted" request
\* whose content yields no chunks builds no payload and is never posted.
C16_TypeDoesNotInfluenceProcessing ==
    /\ \A a, b \in Reqs :
           (SameButType(a, b) /\ SameInputs(a, b)) =>
               /\ log[a] = log[b]
               /\ waits[a] = waits[b]
               /\ attempt[a] = attempt[b]
               /\ result[a] = result[b]
               /\ escaped[a] = escaped[b]
               /\ Len(payload[a]) = Len(payload[b])
               /\ \A i \in DOMAIN payload[a] :
                      /\ NoType(payload[a][i]) = NoType(payload[b][i])
                      /\ payload[a][i].type = req[a].data.type
               /\ Len(sent[a]) = Len(sent[b])
               /\ \A i \in DOMAIN sent[a] :
                      /\ PostNoType(sent[a][i]) = PostNoType(sent[b][i])
                      /\ sent[a][i].json.type = req[a].data.type
    /\ \A r \in Reqs :
           (Started(r) /\ req[r].data.type = "deleted" /\ ~ChunkerRaised(r)
              /\ chunked_objs[r] = <<>>) =>
               (pc[r] = "done" /\ payload[r] = <<>> /\ sent[r] = <<>>)

\* C16 witness: a "created" and a "deleted" request with the same two-chunk
\* content were both delivered at the second attempt; their POSTs differ.
C16_Witness ==
    \E a, b \in Reqs :
        /\ SameButType(a, b) /\ SameInputs(a, b)
        /\ req[a].data.type = "created" /\ req[b].data.type = "deleted"
        /\ Len(chunked_objs[a]) = 2
        /\ outcomes[a] = <<"http_error", "ok">>
        /\ pc[a] = "done"
        /\ sent[a] # sent[b]

\* Task r has called send_to_laravel_with_retry(payload).
CallMade(r) == payload[r] # <<>> /\ pc[r] # "crashed"

\* C17: called with retries <= 0, send_to_laravel_with_retry makes no POST,
\* waits for nothing, raises nothing and returns None, which its caller
\* takes for a delivery (it logs the success record and returns, as after a
\* successful POST). Called with retries >= 1 it makes between 1 and retries
\* POSTs and never falls off its loop: while it runs nothing is returned, and
\* it ends either returning the response of a successful attempt, which was
\* its last, or raising after a failed attempt.
C17_RetriesArgument ==
    \A r \in Reqs :
        CallMade(r) =>
            /\ retries[r] <= 0 =>
                   /\ sent[r] = <<>>
                   /\ outcomes[r] = <<>>
                   /\ waits[r] = <<>>
                   /\ result[r] = "None"
                   /\ escaped[r] = "none"
                   /\ pc[r] = "done"
                   /\ log[r] = <<LogRec("INFO", "Successfully processed and sent lesson",
                                        req[r].data.lesson_id)>>
            /\ retries[r] >= 1 =>
                   /\ Len(sent[r]) \in 1..retries[r]
                   /\ result[r] \in {"none", "json", "raised"}
                   /\ (result[r] = "none") = (pc[r] \in {"posting", "sleeping"})
                   /\ result[r] = "json" =>
                          /\ outcomes[r][Len(outcomes[r])] = "ok"
                          /\ Len(sent[r]) = Len(outcomes[r])
                          /\ LastLogged(r, "INFO", "Successfully processed and sent lesson")
                   /\ result[r] = "raised" =>
                          /\ outcomes[r][Len(outcomes[r])] # "ok"
                          /\ Len(sent[r]) = Len(outcomes[r])
                          /\ LastLogged(r, "ERROR", "Final failure sending lesson")

\* C17 witness: a call with retries = 0 has returned None without a POST, and
\* its task has logged a delivery.
C17_Witness ==
    \E r \in Reqs :
        /\ CallMade(r)
        /\ retries[r] = 0
        /\ result[r] = "None"
        /\ sent[r] = <<>>
        /\ LastLogged(r, "INFO", "Successfully processed and sent lesson")

=============================================================================
